---- MODULE Spec2Model ----
(***************************************************************************)
(* A model of data_dispenser/sources.py: the Source constructor (input     *)
(* classification, trial decode over a candidate list, chained sources)    *)
(* and the pull operation Source.__next__.                                 *)
(*                                                                         *)
(* Python values are tagged records [t |-> tag, v |-> payload]; a str is a *)
(* sequence of one-character strings, a dict an ordered sequence of        *)
(* <<key, value>> pairs.  The grammars of pickle, eval, bs4, ElementTree,  *)
(* json, yaml and csv are external libraries: what each of them returns    *)
(* on a document is tabulated in Catalogue for a fixed set of documents;   *)
(* everything the repository does with the returned value is modelled.     *)
(***************************************************************************)
EXTENDS Integers, Sequences, FiniteSets, TLC

----------------------------------------------------------------------------
(* Python values *)

PyInt(n) == [t |-> "int", v |-> n]
PyBool(b) == [t |-> "bool", v |-> b]
PyStr(s) == [t |-> "str", v |-> s]
PyList(s) == [t |-> "list", v |-> s]
PyTuple(s) == [t |-> "tuple", v |-> s]
PyDict(s) == [t |-> "dict", v |-> s]
PyNone == [t |-> "None", v |-> <<>>]
\* a raised exception, as the value of an operator that models a call
Raised == [t |-> "raise", v |-> <<>>]

\* bool(x)
Truthy(x) ==
    CASE x.t = "int" -> x.v # 0
      [] x.t = "bool" -> x.v
      [] x.t = "None" -> FALSE
      [] x.t = "raise" -> FALSE
      [] OTHER -> Len(x.v) > 0

\* hasattr(s, 'keys')
HasKeys(x) == x.t = "dict"

\* a live iterator: the items it has yet to produce
Gen(rows) == [t |-> "gen", v |-> rows]

\* iter(x): an iterator over x, or Raised for the TypeError
PyIter(x) ==
    CASE x.t \in {"list", "tuple"} -> Gen(x.v)
      [] x.t = "str" -> Gen([i \in 1..Len(x.v) |-> PyStr(<<x.v[i]>>)])
      [] x.t = "dict" -> Gen([i \in 1..Len(x.v) |-> PyStr(x.v[i][1])])
      [] OTHER -> Raised

kA == <<"a">>
kB == <<"b">>
kX == <<"x">>
kTag == <<"t", "a", "g">>
kPadA == <<" ", "a">>
name_ == <<"n", "a", "m", "e", "_">>

----------------------------------------------------------------------------
(* The external libraries on the documents of the model.  Each entry gives *)
(* the text and, per library, the root value it returns when it reads the  *)
(* document from offset zero (Raised when it raises).  csv is the list of  *)
(* rows csv.DictReader yields with fieldnames=None; xml is the value after *)
(* _first_list_in; html is the list of rows of the best table.  strip is   *)
(* the document str.strip() turns the text into.                           *)

Doc(pk, ev, hx, xm, js, ym, cs, st) ==
    [pickle |-> pk, eval |-> ev, html |-> hx, xml |-> xm, json |-> js,
     yaml |-> ym, csv |-> cs, strip |-> st]

RowA(n) == PyDict(<< <<kA, PyInt(n)>> >>)
CsvA(s) == PyDict(<< <<kA, PyStr(<<s>>)>> >>)
XmlI(s) == PyDict(<< <<kTag, PyStr(<<"i">>)>>, <<kA, PyStr(<<s>>)>> >>)
ListA12 == PyList(<<RowA(1), RowA(2)>>)
DictA1 == RowA(1)
DictOfDicts ==
    PyDict(<< <<kA, PyDict(<< <<kX, PyInt(1)>> >>)>>,
              <<kB, PyDict(<< <<kX, PyInt(2)>> >>)>> >>)
DictCollide ==
    PyDict(<< <<kA, PyDict(<< <<name_, PyInt(9)>>, <<kX, PyInt(1)>> >>)>> >>)
DictMixed ==
    PyDict(<< <<kA, PyDict(<< <<kX, PyInt(1)>> >>)>>, <<kB, PyInt(2)>> >>)

Catalogue ==
    [ \* ""  (also what is left of any document past its end)
      eof |-> Doc(Raised, Raised, Raised, Raised, Raised, PyNone,
                  PyList(<<>>), "eof"),
      \* "a\n1\n2"
      csv2 |-> Doc(Raised, Raised, Raised, Raised, Raised,
                   PyStr(<<"a", " ", "1", " ", "2">>),
                   PyList(<<CsvA("1"), CsvA("2")>>), "csv2"),
      \* " a\n1\n2\n"
      pad |-> Doc(Raised, Raised, Raised, Raised, Raised,
                  PyStr(<<"a", " ", "1", " ", "2">>),
                  PyList(<<PyDict(<< <<kPadA, PyStr(<<"1">>)>> >>),
                           PyDict(<< <<kPadA, PyStr(<<"2">>)>> >>)>>), "csv2"),
      \* "1,2"
      hdr |-> Doc(Raised, PyTuple(<<PyInt(1), PyInt(2)>>), Raised, Raised,
                  Raised, PyStr(<<"1", ",", "2">>), PyList(<<>>), "hdr"),
      \* '[{"a": 1}, {"a": 2}]'
      jsonlist |-> Doc(Raised, ListA12, Raised, Raised, ListA12, ListA12,
                       PyList(<<>>), "jsonlist"),
      \* '[{"a": true}]'
      jsontrue |-> Doc(Raised, Raised, Raised, Raised,
                       PyList(<<PyDict(<< <<kA, PyBool(TRUE)>> >>)>>),
                       PyList(<<PyDict(<< <<kA, PyBool(TRUE)>> >>)>>),
                       PyList(<<>>), "jsontrue"),
      \* '[]'
      empty |-> Doc(Raised, PyList(<<>>), Raised, Raised, PyList(<<>>),
                    PyList(<<>>), PyList(<<>>), "empty"),
      \* '{"a": 1}'
      jsondict |-> Doc(Raised, DictA1, Raised, Raised, DictA1, DictA1,
                       PyList(<<>>), "jsondict"),
      \* '{"a": {"x": 1}, "b": {"x": 2}}'
      dod |-> Doc(Raised, DictOfDicts, Raised, Raised, DictOfDicts,
                  DictOfDicts, PyList(<<>>), "dod"),
      \* '{"a": {"name_": 9, "x": 1}}'
      coll |-> Doc(Raised, DictCollide, Raised, Raised, DictCollide,
                   DictCollide, PyList(<<>>), "coll"),
      \* '{"a": {"x": 1}, "b": 2}'
      mixed |-> Doc(Raised, DictMixed, Raised, Raised, DictMixed, DictMixed,
                    PyList(<<>>), "mixed"),
      \* '{}'
      emptymap |-> Doc(Raised, PyDict(<<>>), Raised, Raised, PyDict(<<>>),
                       PyDict(<<>>), PyList(<<>>), "emptymap"),
      \* '[0, 5]'
      zerolist |-> Doc(Raised, PyList(<<PyInt(0), PyInt(5)>>), Raised, Raised,
                       PyList(<<PyInt(0), PyInt(5)>>),
                       PyList(<<PyInt(0), PyInt(5)>>), PyList(<<>>),
                       "zerolist"),
      \* '42'
      lit42 |-> Doc(Raised, PyInt(42), Raised, Raised, PyInt(42), PyInt(42),
                    PyList(<<>>), "lit42"),
      \* 'None'
      nonetext |-> Doc(Raised, PyNone, Raised, Raised, Raised,
                       PyStr(<<"N", "o", "n", "e">>), PyList(<<>>),
                       "nonetext"),
      \* '<r><i a="1"/><i a="2"/></r>'
      xml2 |-> Doc(Raised, Raised, Raised,
                   PyList(<<XmlI("1"), XmlI("2")>>), Raised,
                   PyStr(<<"<", "r", ">">>), PyList(<<>>), "xml2"),
      \* 'a\rb': csv.Error, new-line character seen in unquoted field
      garbage |-> Doc(Raised, Raised, Raised, Raised, Raised,
                      PyStr(<<"a", " ", "b">>), Raised, "garbage"),
      \* b'\xff\xfe', bytes no text-mode read can decode
      binary |-> Doc(Raised, Raised, Raised, Raised, Raised, Raised, Raised,
                     "binary"),
      \* pickle.dumps([{'a': 1}, {'a': 2}]), a binary stream
      pkl |-> Doc(ListA12, Raised, Raised, Raised, Raised, Raised, Raised,
                  "pkl"),
      \* 'f*.json', the text of a glob pattern or of a path
      pattern |-> Doc(Raised, Raised, Raised, Raised, Raised,
                      PyStr(<<"f", "*">>), PyList(<<>>), "pattern") ]

Docs == DOMAIN Catalogue

\* what a reader positioned at offset pos of the document sees
DocAt(doc, pos) == IF pos = 0 THEN doc ELSE "eof"

----------------------------------------------------------------------------
(* Record normalizer and deserializers *)

\* dict(name_=k, **sub): TypeError when sub already has the keyword name_
NamedRow(k, sub) ==
    IF \E i \in 1..Len(sub.v) : sub.v[i][1] = name_
    THEN Raised
    ELSE PyDict(<< <<name_, PyStr(k)>> >> \o sub.v)

_ensure_rows(result) ==
    IF result.t = "dict"
    THEN IF Len(result.v) = 0
         \* result = [] and then result.values(): AttributeError
         THEN Raised
         ELSE IF \A i \in 1..Len(result.v) : HasKeys(result.v[i][2])
              THEN LET rows == [i \in 1..Len(result.v) |->
                                  NamedRow(result.v[i][1], result.v[i][2])]
                   IN  IF \E i \in 1..Len(rows) : rows[i].t = "raise"
                       THEN Raised
                       ELSE PyList(rows)
              ELSE PyList(<<result>>)
    ELSE result

pickle_loader(doc) == PyIter(_ensure_rows(Catalogue[doc].pickle))

_eval_file_obj(doc) ==
    LET result == Catalogue[doc].eval
    IN  IF result.t = "raise" THEN Raised
        ELSE IF result.t = "list" THEN Gen(result.v)
        ELSE Gen(<<result>>)

_html_to_odicts(doc) == PyIter(Catalogue[doc].html)

_eval_xml(doc) == PyIter(Catalogue[doc].xml)

json_loader(doc) == PyIter(_ensure_rows(Catalogue[doc].json))

ordered_yaml_load(doc) == PyIter(_ensure_rows(Catalogue[doc].yaml))

_eval_csv(doc) == PyIter(Catalogue[doc].csv)

\* deserializer(open_file, fieldnames=None) with the stream at offset pos,
\* taken up to and including its first pull
Call(deserializer, doc, pos) ==
    LET target == DocAt(doc, pos)
    IN  CASE deserializer = "pickle_loader" -> pickle_loader(target)
          [] deserializer = "_eval_file_obj" -> _eval_file_obj(target)
          [] deserializer = "_html_to_odicts" -> _html_to_odicts(target)
          [] deserializer = "_eval_xml" -> _eval_xml(target)
          [] deserializer = "json_loader" -> json_loader(target)
          [] deserializer = "ordered_yaml_load" -> ordered_yaml_load(target)
          [] deserializer = "_eval_csv" -> _eval_csv(target)

\* Source.eval_funcs_by_ext, without the '*' entry
ExtTable ==
    ".py" :> <<"_eval_file_obj">> @@ ".json" :> <<"json_loader">> @@
    ".yaml" :> <<"ordered_yaml_load">> @@ ".yml" :> <<"ordered_yaml_load">> @@
    ".csv" :> <<"_eval_csv">> @@ ".xml" :> <<"_eval_xml">> @@
    ".html" :> <<"_html_to_odicts">> @@ ".htm" :> <<"_html_to_odicts">> @@
    ".pickle" :> <<"pickle_loader">>

\* eval_funcs_by_ext['*']
CatchAll ==
    ExtTable[".pickle"] \o <<"_eval_file_obj">> \o ExtTable[".html"] \o
    ExtTable[".xml"] \o ExtTable[".json"] \o ExtTable[".yaml"] \o
    ExtTable[".csv"]

eval_funcs_by_ext == ExtTable @@ ("*" :> CatchAll)

----------------------------------------------------------------------------
(* Source._deserialize: trial decode.  The stream offset is 0 or 1 (any    *)
(* offset past the start); a call that read the stream leaves it at 1.     *)

\* no seek: the stream stays where the caller or the last trial left it
NoSeek(pos) == pos

\* self.file.seek(0) at the top of each iteration
SeekStart(pos) == 0

\* no first record counts as a false hit
NeverFalseHit(deserializer, row_1) == FALSE

\* deserializer == ordered_yaml_load and isinstance(row_1, str) and
\* len(row_1) == 1
IsFalseHit(deserializer, row_1) ==
    /\ deserializer = "ordered_yaml_load"
    /\ row_1.t = "str"
    /\ Len(row_1.v) = 1

\* the try block once deserializer(open_file) has returned generator (or
\* raised): how it ends, the record pulled, the iterator left after the pull
Classify(deserializer, generator) ==
    IF generator.t = "raise"
    THEN [outcome |-> "error", row_1 |-> PyNone, generator |-> Gen(<<>>)]
    ELSE IF Len(generator.v) = 0
    THEN [outcome |-> "eos", row_1 |-> PyNone, generator |-> generator]
    ELSE IF ~Truthy(Head(generator.v))
    THEN [outcome |-> "empty", row_1 |-> Head(generator.v),
          generator |-> Gen(Tail(generator.v))]
    ELSE IF IsFalseHit(deserializer, Head(generator.v))
    THEN [outcome |-> "falsehit", row_1 |-> Head(generator.v),
          generator |-> Gen(Tail(generator.v))]
    ELSE [outcome |-> "row", row_1 |-> Head(generator.v),
          generator |-> Gen(Tail(generator.v))]

\* the try block for one candidate, invoked on the stream at offset pos
Trial(deserializer, doc, pos) ==
    Classify(deserializer, Call(deserializer, doc, pos))

\* the iterator the trial pulled from is kept as the committed one
ReuseTrial(deserializer, doc, used) == used

\* self.file.seek(0); self.generator = deserializer(open_file, ...) after a
\* trial that pulled a record; used is the iterator the trial left
Reinvoke(deserializer, doc, used) == Call(deserializer, doc, 0)

\* only a first record commits
CommitsRowOnly(outcome) == outcome = "row"

\* the outcomes on which the loop returns with the candidate committed:
\* except StopIteration, and a first record that is no false hit
Commits(outcome) == outcome \in {"eos", "row"}

\* the offset a trial leaves the stream at: the except Exception branch
\* does not seek, the other branches do
AfterTrial(outcome) == IF outcome = "error" THEN 1 ELSE 0

\* the deserializers written as generator functions: calling one reads
\* nothing, the stream is read when the first record is pulled
Lazy(deserializer) ==
    deserializer \in {"_eval_file_obj", "_eval_csv", "_html_to_odicts"}

\* the offset the re-invocation leaves the stream at
AfterReinvoke(deserializer) == IF Lazy(deserializer) THEN 0 ELSE 1

\* the raise after the loop: ", ".join(self.deserializers) is applied to a
\* list of functions and raises TypeError before the SyntaxError is built
ExhaustedError(deserializers) ==
    IF Len(deserializers) = 0 THEN "SyntaxError" ELSE "TypeError"

NoGen == [kind |-> "none", rows |-> <<>>, children |-> <<>>, cur |-> 1]
RowsGen(rows) == [kind |-> "rows", rows |-> rows, children |-> <<>>, cur |-> 1]
ChainGen(subsources) ==
    [kind |-> "chain", rows |-> <<>>, children |-> subsources, cur |-> 1]

RECURSIVE DeserializeFrom(_, _, _, _, _)
RECURSIVE AfterCandidate(_, _, _, _, _, _)

\* the for loop from candidate i on, the stream being at offset pos
DeserializeFrom(deserializers, doc, i, pos, trace) ==
    IF i > Len(deserializers)
    THEN [err |-> ExhaustedError(deserializers), deserializer |-> "None",
          generator |-> NoGen, filePos |-> pos, trace |-> trace]
    ELSE AfterCandidate(deserializers, doc, i, SeekStart(pos), trace,
                        Trial(deserializers[i], doc, SeekStart(pos)))

\* candidate i was invoked at offset at and its try block ended as trial:
\* return with it committed, or go on with the next one
AfterCandidate(deserializers, doc, i, at, trace, trial) ==
    IF Commits(trial.outcome)
    THEN [err |-> "none", deserializer |-> deserializers[i],
          generator |->
              IF trial.outcome = "eos"
              THEN RowsGen(trial.generator.v)
              ELSE RowsGen(Reinvoke(deserializers[i], doc, trial.generator).v),
          filePos |-> IF trial.outcome = "eos" THEN 0
                      ELSE AfterReinvoke(deserializers[i]),
          trace |-> Append(trace, [deserializer |-> deserializers[i],
                                   doc |-> doc, pos |-> at,
                                   outcome |-> trial.outcome,
                                   row_1 |-> trial.row_1])]
    ELSE DeserializeFrom(deserializers, doc, i + 1, AfterTrial(trial.outcome),
                         Append(trace, [deserializer |-> deserializers[i],
                                        doc |-> doc, pos |-> at,
                                        outcome |-> trial.outcome,
                                        row_1 |-> trial.row_1]))

\* pos: the offset the stream is handed in at
_deserialize(deserializers, doc, pos) ==
    DeserializeFrom(deserializers, doc, 1, pos, <<>>)

----------------------------------------------------------------------------
(* The world the constructor's tests look at: the files that exist, what   *)
(* glob.glob returns, what requests.get fetches.                           *)

File(doc, ext) == [doc |-> doc, ext |-> ext]

\* path :> content and os.path.splitext(path)[1]; the content is what
\* _open(path) hands over, text read with universal newlines unless the
\* name ends with .pickle
FS ==
    "csv2.csv" :> File("csv2", ".csv") @@ "pad.csv" :> File("pad", ".csv") @@
    "hdr.csv" :> File("hdr", ".csv") @@ "f1.json" :> File("jsonlist", ".json") @@
    "f2.json" :> File("jsontrue", ".json") @@
    "f3.json" :> File("empty", ".json") @@
    "jsondict.json" :> File("jsondict", ".json") @@
    "dod.json" :> File("dod", ".json") @@ "c1.json" :> File("coll", ".json") @@
    "mixed.json" :> File("mixed", ".json") @@
    "emptymap.json" :> File("emptymap", ".json") @@
    "zerolist.json" :> File("zerolist", ".json") @@
    "lit42.py" :> File("lit42", ".py") @@
    "jsondict.py" :> File("jsondict", ".py") @@
    "rows.xml" :> File("xml2", ".xml") @@
    "rows.pickle" :> File("pkl", ".pickle") @@
    "DATA.JSON" :> File("jsonlist", ".JSON") @@
    "csv2.dat" :> File("csv2", ".dat") @@ "noext" :> File("binary", "") @@
    "garbage.csv" :> File("binary", ".csv") @@
    "book.xls" :> File("eof", ".xls")

\* str.lower() on the extensions of the model
Lower(ext) == IF ext = ".JSON" THEN ".json" ELSE ext

\* the rows of each sheet of a workbook, after the heading row
Sheets ==
    "book.xls" :> << <<RowA(1), RowA(2), RowA(3)>>, <<RowA(4)>> >> @@
    "http://h/book.xls" :> << <<RowA(1)>> >>

\* glob.glob(pattern), in the order the directory lists the matches
GlobTable ==
    "f*.json" :> <<"f2.json", "f3.json", "f1.json">> @@
    "?1.json" :> <<"f1.json", "c1.json">>

\* Python's order on str, on the paths glob.glob returns
LexRank == "c1.json" :> 1 @@ "f1.json" :> 2 @@ "f2.json" :> 3 @@ "f3.json" :> 4

LexLess(a, b) == a # b /\ LexRank[a] < LexRank[b]

\* sorted(s), s without duplicates
Sorted(s) ==
    LET below(i) == Cardinality({j \in 1..Len(s) : LexLess(s[j], s[i])})
    IN  [k \in 1..Len(s) |-> s[CHOOSE i \in 1..Len(s) : below(i) = k - 1]]

\* strings that start with 'http': scheme says whether they start with
\* 'http://' or 'https://', ext is os.path.splitext(src)[1], body the
\* document requests.get returns (ok: whether it returns at all)
Web ==
    "http://h/f1.json" :>
        [scheme |-> TRUE, ext |-> ".json", ok |-> TRUE, body |-> "jsonlist"] @@
    "http://h/garbage.csv" :>
        [scheme |-> TRUE, ext |-> ".csv", ok |-> TRUE, body |-> "garbage"] @@
    "http://h/data.txt" :>
        [scheme |-> TRUE, ext |-> ".txt", ok |-> TRUE, body |-> "jsonlist"] @@
    "http://h/data" :>
        [scheme |-> TRUE, ext |-> "", ok |-> TRUE, body |-> "jsonlist"] @@
    "http://h/book.xls" :>
        [scheme |-> TRUE, ext |-> ".xls", ok |-> TRUE, body |-> "eof"] @@
    "http://down/f1.json" :>
        [scheme |-> TRUE, ext |-> ".json", ok |-> FALSE, body |-> "eof"] @@
    "httpd.json" :>
        [scheme |-> FALSE, ext |-> ".json", ok |-> FALSE, body |-> "eof"]

\* the document a str is when it is read as text
TextDoc(name) == IF name \in Docs THEN name ELSE "pattern"

\* the arguments of Source()
StrArg(name) == [kind |-> "str", name |-> name, rows |-> <<>>, pos |-> 0]
StreamArg(doc, pos) ==
    [kind |-> "stream", name |-> doc, rows |-> <<>>, pos |-> pos]
IterArg(rows) == [kind |-> "iter", name |-> "", rows |-> rows, pos |-> 0]
MongoArg(rows) == [kind |-> "mongo", name |-> "", rows |-> rows, pos |-> 0]
\* an object with none of the capabilities the constructor probes for
OtherArg == [kind |-> "other", name |-> "", rows |-> <<>>, pos |-> 0]

\* constructors that fit on the call stack on top of the first one
MaxDepth == 2

\* limit=None and limit=n
NoLimit == [some |-> FALSE, n |-> 0]
Limit(n) == [some |-> TRUE, n |-> n]

----------------------------------------------------------------------------
(* class Source *)

\* the attributes __init__ sets before it classifies src
NewSource(limit) ==
    [counter |-> 0, limit |-> limit, deserializers |-> <<>>,
     deserializer |-> "None", generator |-> NoGen, filePos |-> 0]

\* what a step of the constructor returns: the exception it raised (or
\* "none"), the Source as it left it, the trial decode it ran
Step(err, self, trace) == [err |-> err, self |-> self, trace |-> trace]

_source_is_generator(self, rows) ==
    Step("none", [self EXCEPT !.generator = RowsGen(rows)], <<>>)

_source_is_mongo(self, rows) ==
    Step("none", [self EXCEPT !.generator = RowsGen(rows)], <<>>)

\* self.deserializers was set and _deserialize returned r (or raised r.err)
Deserialized(self, deserializers, r) ==
    Step(r.err,
         [self EXCEPT !.deserializers = deserializers,
                      !.deserializer = r.deserializer,
                      !.generator = r.generator,
                      !.filePos = r.filePos],
         r.trace)

\* self.eval_funcs_by_ext.get(file_extension, self.eval_funcs_by_ext['*'])
ByExtension(file_extension) ==
    IF file_extension \in DOMAIN eval_funcs_by_ext
    THEN eval_funcs_by_ext[file_extension]
    ELSE eval_funcs_by_ext["*"]

_source_is_path(self, src) ==
    Deserialized(self, ByExtension(Lower(FS[src].ext)),
                 _deserialize(ByExtension(Lower(FS[src].ext)), FS[src].doc, 0))

_source_is_open_file(self, doc, pos) ==
    Deserialized(self, eval_funcs_by_ext["*"],
                 _deserialize(eval_funcs_by_ext["*"], doc, pos))

\* if self.limit and (self.counter > self.limit)
LimitExceeded(limit, counter) == limit.some /\ limit.n # 0 /\ counter > limit.n

RECURSIVE SourceInit(_, _, _)
RECURSIVE Subsources(_, _, _, _)
RECURSIVE SourceNext(_)
RECURSIVE GeneratorNext(_)

\* the subsources from sources[i] on, first being Source(sources[i]) and
\* rest the ones after it
Cons(first, rest) ==
    IF first.err # "none" THEN [err |-> first.err, subsources |-> <<>>]
    ELSE IF rest.err # "none" THEN [err |-> rest.err, subsources |-> <<>>]
    ELSE [err |-> "none", subsources |-> <<first.self>> \o rest.subsources]

\* [Source(s, limit=self.limit) for s in sources], from sources[i] on;
\* depth is the number of constructors on the call stack
Subsources(sources, limit, i, depth) ==
    IF i > Len(sources) THEN [err |-> "none", subsources |-> <<>>]
    ELSE Cons(SourceInit(sources[i], limit, depth + 1),
              Subsources(sources, limit, i + 1, depth))

\* the two assignments that follow the list of subsources
Chained(self, trace, built) ==
    IF built.err # "none" THEN Step(built.err, self, trace)
    ELSE Step("none",
              [self EXCEPT !.limit = NoLimit,
                           !.generator = ChainGen(built.subsources)],
              trace)

_multiple_sources(self, trace, sources, depth) ==
    Chained(self, trace, Subsources(sources, self.limit, 1, depth))

\* one generator per sheet, each wrapped in a NamedIter
_source_is_excel(self, spreadsheet, depth) ==
    _multiple_sources(self, <<>>,
        [i \in 1..Len(Sheets[spreadsheet]) |-> IterArg(Sheets[spreadsheet][i])],
        depth)

_source_is_url(self, src, depth) ==
    \* _actual_ext_finder.search('') is None
    IF Web[src].ext = "" THEN Step("AttributeError", self, <<>>)
    ELSE IF ~Web[src].ok THEN Step("RequestException", self, <<>>)
    ELSE IF Lower(Web[src].ext) = ".xls" THEN _source_is_excel(self, src, depth)
    \* self.deserializers = eval_funcs_by_ext.get(ext or '*') is None and
    \* _deserialize raises at `for deserializer in self.deserializers`
    ELSE IF Lower(Web[src].ext) \notin DOMAIN eval_funcs_by_ext
    THEN Step("TypeError", self, <<>>)
    ELSE Deserialized(self, eval_funcs_by_ext[Lower(Web[src].ext)],
                      _deserialize(eval_funcs_by_ext[Lower(Web[src].ext)],
                                   Web[src].body, 0))

\* the constructor's result: err, self and the last trial decode as in
\* Step, and the acquisition paths whose test matched, in the order they ran
Built(step, paths) ==
    [err |-> step.err, self |-> step.self, trace |-> step.trace,
     paths |-> paths]

\* raise NotImplementedError
Unrecognized(self, trace, paths) ==
    [err |-> "NotImplementedError", self |-> self, trace |-> trace,
     paths |-> paths]

\* return after _source_is_open_file(string_file), or except: pass and the
\* final raise
TextDone(step, paths) ==
    IF step.err = "none" THEN Built(step, paths)
    ELSE Unrecognized(step.self, step.trace, paths)

\* try: string_file = StringIO(src.strip()) ... except: pass
TryText(src, self, trace, paths) ==
    IF src.kind # "str" THEN Unrecognized(self, trace, paths)
    ELSE TextDone(_source_is_open_file(
                      self, Catalogue[TextDoc(src.name)].strip, 0),
                  Append(paths, "text"))

\* glob.glob(src): the matches of a pattern, an existing path itself
Glob(name) ==
    IF name \in DOMAIN GlobTable THEN GlobTable[name]
    ELSE IF name \in DOMAIN FS THEN <<name>>
    ELSE <<>>

\* sorted(glob.glob(src)) as arguments of Source()
GlobSources(name) ==
    [i \in 1..Len(Glob(name)) |-> StrArg(Sorted(Glob(name))[i])]

\* return after _multiple_sources(sources), or except: pass
GlobDone(src, self, trace, paths, step) ==
    IF step.err = "none" THEN Built(step, paths)
    ELSE TryText(src, self, trace, paths)

\* try: sources = sorted(glob.glob(src)) ... except: pass
TryGlob(src, self, trace, paths, depth) ==
    IF src.kind = "str" /\ Len(Glob(src.name)) > 0
    THEN GlobDone(src, self, trace, Append(paths, "glob"),
                  _multiple_sources(self, trace, GlobSources(src.name), depth))
    ELSE TryText(src, self, trace, paths)

\* data = eval(src) returned data: iter(data) unless it has __next__, then
\* _source_is_generator(data) and return, or except: pass
EvalDone(src, self, trace, paths, data, depth) ==
    IF data.t = "raise" THEN TryGlob(src, self, trace, paths, depth)
    ELSE Built(Step("none", [self EXCEPT !.generator = RowsGen(data.v)],
                    trace), paths)

\* try: data = eval(src) ... except: pass
TryEval(src, self, trace, paths, depth) ==
    IF src.kind = "str" /\ Catalogue[TextDoc(src.name)].eval.t # "raise"
    THEN EvalDone(src, self, trace, Append(paths, "eval"),
                  PyIter(Catalogue[TextDoc(src.name)].eval), depth)
    ELSE TryGlob(src, self, trace, paths, depth)

\* _source_is_url(src) raised, or returned and the constructor goes on
HttpDone(src, paths, step, depth) ==
    IF step.err # "none" THEN Built(step, Append(paths, "url"))
    ELSE TryEval(src, step.self, step.trace, Append(paths, "url"), depth)

\* if hasattr(src, 'startswith') and src.startswith('http'):
\*     self._source_is_url(src)
\* with no return after it
TryHttp(src, self, trace, paths, depth) ==
    IF src.kind = "str" /\ src.name \in DOMAIN Web
    THEN HttpDone(src, paths, _source_is_url(self, src.name, depth), depth)
    ELSE TryEval(src, self, trace, paths, depth)

\* try: if os.path.isfile(src): ...; return  except TypeError: pass
\* step is what _source_is_excel or _source_is_path did
FileDone(src, paths, step, depth) ==
    IF step.err = "TypeError"
    THEN TryHttp(src, step.self, step.trace, paths, depth)
    ELSE Built(step, paths)

\* Source.__init__(src, limit), with depth constructors already on the
\* call stack: past MaxDepth the interpreter raises RecursionError
SourceInit(src, limit, depth) ==
    IF depth > MaxDepth
    THEN Built(Step("RecursionError", NewSource(limit), <<>>), <<>>)
    ELSE IF src.kind = "mongo"
    THEN Built(_source_is_mongo(NewSource(limit), src.rows), <<"mongo">>)
    ELSE IF src.kind = "str" /\ src.name \in DOMAIN Web /\ Web[src.name].scheme
    THEN Built(_source_is_url(NewSource(limit), src.name, depth), <<"url">>)
    ELSE IF src.kind = "stream"
    THEN Built(_source_is_open_file(NewSource(limit), src.name, src.pos),
               <<"open_file">>)
    ELSE IF src.kind = "iter"
    THEN Built(_source_is_generator(NewSource(limit), src.rows),
               <<"generator">>)
    ELSE IF src.kind = "str" /\ src.name \in DOMAIN FS
    THEN IF FS[src.name].ext = ".xls"
         THEN FileDone(src, <<"excel">>,
                       _source_is_excel(NewSource(limit), src.name, depth),
                       depth)
         ELSE FileDone(src, <<"path">>,
                       _source_is_path(NewSource(limit), src.name), depth)
    ELSE TryHttp(src, NewSource(limit), <<>>, <<>>, depth)

\* itertools.chain: subsource g.cur was pulled from and answered r
ChainStep(g, r) ==
    IF r.eos
    THEN GeneratorNext([g EXCEPT !.children[g.cur] = r.self,
                                 !.cur = g.cur + 1])
    ELSE [generator |-> [g EXCEPT !.children[g.cur] = r.self],
          eos |-> FALSE, row |-> r.row]

\* next() on self.generator: the generator after the call, whether it
\* raised StopIteration, the record it returned
GeneratorNext(g) ==
    IF g.kind = "chain"
    THEN IF g.cur > Len(g.children)
         THEN [generator |-> g, eos |-> TRUE, row |-> PyNone]
         ELSE ChainStep(g, SourceNext(g.children[g.cur]))
    ELSE IF Len(g.rows) = 0
         THEN [generator |-> g, eos |-> TRUE, row |-> PyNone]
         ELSE [generator |-> [g EXCEPT !.rows = Tail(g.rows)], eos |-> FALSE,
               row |-> Head(g.rows)]

\* the stream offset after a call of self.generator: a generator function
\* with records to give reads the stream when it is pulled from
AfterPull(self) ==
    IF Lazy(self.deserializer) /\ Len(self.generator.rows) > 0 THEN 1
    ELSE self.filePos

\* a pull that forgets which deserializer was committed
DelegatedUncommits(self, r) ==
    [self |-> [self EXCEPT !.generator = r.generator,
                           !.deserializer = "None"],
     eos |-> r.eos, row |-> r.row, called |-> TRUE]

\* return self.generator.__next__(), r being what the generator answered
Delegated(self, r) ==
    [self |-> [self EXCEPT !.generator = r.generator,
                           !.filePos = AfterPull(self)],
     eos |-> r.eos, row |-> r.row, called |-> TRUE]

\* Source.__next__: the Source after the pull, whether it raised
\* StopIteration, the record returned, whether self.generator was called
SourceNext(self) ==
    IF LimitExceeded(self.limit, self.counter + 1)
    THEN [self |-> [self EXCEPT !.counter = self.counter + 1], eos |-> TRUE,
          row |-> PyNone, called |-> FALSE]
    ELSE Delegated([self EXCEPT !.counter = self.counter + 1],
                   GeneratorNext(self.generator))

----------------------------------------------------------------------------
(* The program: one Source is constructed from an argument and a limit,    *)
(* then pulled from.                                                       *)

\* largest limit passed to the constructor
MaxLimit == 3
\* pulls made on one Source
MaxPulls == 6

ThreeRows == <<RowA(1), RowA(2), RowA(3)>>

Args ==
    {StrArg(n) : n \in DOMAIN FS \cup DOMAIN GlobTable \cup DOMAIN Web
                      \cup (Docs \ {"pkl", "binary"})}
    \cup {StreamArg(d, p) : d \in Docs, p \in {0, 1}}
    \cup {IterArg(ThreeRows), IterArg(<<>>), MongoArg(ThreeRows), OtherArg}

Limits == {NoLimit} \cup {Limit(n) : n \in 0..MaxLimit}

VARIABLES phase, src, limit, self, err, paths, trace, out, pulls, genCalls,
          last, eosSeen, limitStop

vars == <<phase, src, limit, self, err, paths, trace, out, pulls, genCalls,
          last, eosSeen, limitStop>>

Init ==
    /\ phase = "new"
    /\ src \in Args
    /\ limit \in Limits
    /\ self = NewSource(limit)
    /\ err = "none"
    /\ paths = <<>>
    /\ trace = <<>>
    /\ out = <<>>
    /\ pulls = 0
    /\ genCalls = 0
    /\ last = [eos |-> FALSE, called |-> FALSE]
    /\ eosSeen = FALSE
    /\ limitStop = FALSE

\* the constructor returned built, or raised built.err
Constructed(built) ==
    /\ phase' = IF built.err = "none" THEN "built" ELSE "failed"
    /\ self' = built.self
    /\ err' = built.err
    /\ paths' = built.paths
    /\ trace' = built.trace

\* Source(src, limit=limit)
Construct ==
    /\ phase = "new"
    /\ Constructed(SourceInit(src, limit, 0))
    /\ UNCHANGED <<src, limit, out, pulls, genCalls, last, eosSeen, limitStop>>

\* the pull answered r
Pulled(r) ==
    /\ self' = r.self
    /\ out' = IF r.eos THEN out ELSE Append(out, r.row)
    /\ last' = [eos |-> r.eos, called |-> r.called]
    /\ genCalls' = IF r.called THEN genCalls + 1 ELSE genCalls
    /\ eosSeen' = (eosSeen \/ r.eos)
    /\ limitStop' = (limitStop \/ (r.eos /\ ~r.called))

\* next(source)
Pull ==
    /\ phase = "built"
    /\ pulls < MaxPulls
    /\ Pulled(SourceNext(self))
    /\ pulls' = pulls + 1
    /\ UNCHANGED <<phase, src, limit, err, paths, trace>>

Next == Construct \/ Pull

Spec == Init /\ [][Next]_vars

----------------------------------------------------------------------------
(* Vocabulary of the properties below, stated on what a deserializer does  *)
(* when it is invoked on a document from offset zero.                      *)

\* the candidate raises before it yields anything
RaisesOn(g) == g.t = "raise"
\* the candidate's first pull signals end-of-sequence
EndsOn(g) == g.t = "gen" /\ Len(g.v) = 0
\* the false hit: the YAML decoder yielding a one-character string
FalseHitOn(d, g) ==
    /\ g.t = "gen" /\ Len(g.v) > 0
    /\ d = "ordered_yaml_load" /\ Head(g.v).t = "str" /\ Len(Head(g.v).v) = 1
\* the candidate's first record is empty or falsy
EmptyOn(g) == g.t = "gen" /\ Len(g.v) > 0 /\ ~Truthy(Head(g.v))
\* the candidate's first record is non-empty and not the false hit
RecordOn(d, g) ==
    g.t = "gen" /\ Len(g.v) > 0 /\ Truthy(Head(g.v)) /\ ~FalseHitOn(d, g)

Ends(d, doc) == EndsOn(Call(d, doc, 0))
YieldsRecord(d, doc) == RecordOn(d, Call(d, doc, 0))
Accepted(d, doc) == Ends(d, doc) \/ YieldsRecord(d, doc)
DiscardedAsErrorOrFalseHit(d, doc) ==
    RaisesOn(Call(d, doc, 0)) \/ FalseHitOn(d, Call(d, doc, 0))
DiscardedAsEmpty(d, doc) == EmptyOn(Call(d, doc, 0))

\* the document the constructor's last trial decode read
DecodedDoc == trace[1].doc

\* the constructor ran a trial decode
Decoded == phase # "new" /\ trace # <<>>

\* the constructor returned a Source whose trial decode committed a candidate
Committed == Decoded /\ phase = "built" /\ self.deserializer # "None"

Min(a, b) == IF a < b THEN a ELSE b
Prefix(s, n) == SubSeq(s, 1, Min(n, Len(s)))

RECURSIVE Drain(_, _)
RECURSIVE DrainStep(_, _)
\* list(source)
Drain(source, acc) == DrainStep(SourceNext(source), acc)
DrainStep(r, acc) == IF r.eos THEN acc ELSE Drain(r.self, Append(acc, r.row))

\* what a construction gives its caller: whether it returned a Source and
\* the records that Source yields up to end-of-sequence
Listed(built) ==
    IF built.err # "none" THEN [ok |-> FALSE, rows |-> <<>>]
    ELSE [ok |-> TRUE, rows |-> Drain(built.self, <<>>)]
Records(arg, lim) == Listed(SourceInit(arg, lim, 0))

\* the same for the Source of the current state, once it has been iterated
\* to end-of-sequence or its construction has failed
Finished == phase = "failed" \/ (phase = "built" /\ eosSeen)
Mine == [ok |-> phase = "built", rows |-> out]

----------------------------------------------------------------------------
\* C1: for a Source over a single (non-chained) record sequence of T records
\* and a limit N >= 0, iterating to end-of-sequence yields exactly min(N, T)
\* records, equal to the first N records of the unlimited iteration.
C1_LimitYieldsPrefix ==
    (phase = "built" /\ eosSeen /\ limit.some /\ self.generator.kind = "rows")
        => out = Prefix(Records(src, NoLimit).rows, limit.n)

----------------------------------------------------------------------------
\* the path is a file with a registered extension
RegisteredPath ==
    /\ src.kind = "str" /\ src.name \in DOMAIN FS
    /\ Lower(FS[src.name].ext) \in DOMAIN ExtTable
PathDoc == FS[src.name].doc
PathDecoder == ExtTable[Lower(FS[src.name].ext)][1]
\* literal text exists for every document but the binary ones
IsText(doc) == doc \notin {"pkl", "binary"}

DecoderIsFirstAccepted(d, doc) ==
    /\ Accepted(d, doc)
    /\ \A i \in 1..Len(CatchAll) :
           (\A j \in 1..i : CatchAll[j] # d) => ~Accepted(CatchAll[i], doc)

\* the text is not evaluable as a literal and strip() leaves it as it is
\* (no document of the model names a file, a URL or a glob with matches)
PlainText(doc) ==
    /\ IsText(doc)
    /\ Catalogue[doc].eval.t = "raise"
    /\ Catalogue[doc].strip = doc

----------------------------------------------------------------------------
RECURSIVE PerChild(_, _, _)
\* the first min(n, Ti) records of each of names[i..], concatenated
PerChild(names, n, i) ==
    IF i > Len(names) THEN <<>>
    ELSE Prefix(Records(StrArg(names[i]), NoLimit).rows, n)
         \o PerChild(names, n, i + 1)

\* C3: a chained Source over the glob matches m1 < ... < mk with limit N
\* yields the first min(N, Ti) records of each child, in that order; the
\* parent applies no limit of its own.
C3_ChainLimitsEachChild ==
    (phase = "built" /\ eosSeen /\ limit.some /\ paths = <<"glob">>)
        => /\ ~self.limit.some
           /\ out = PerChild(Sorted(GlobTable[src.name]), limit.n, 1)

----------------------------------------------------------------------------
\* what is common to C4 as stated and as amended: the candidates were
\* invoked in list order, each on the stream at offset zero, none after the
\* committed one, and the committed one is the first whose trial signals
\* end-of-sequence or yields a non-empty record that is no false hit
CommitsFirstAccepted ==
    /\ Len(trace) <= Len(self.deserializers)
    /\ \A i \in 1..Len(trace) :
           /\ trace[i].deserializer = self.deserializers[i]
           /\ trace[i].pos = 0
    /\ self.deserializer = self.deserializers[Len(trace)]
    /\ Accepted(self.deserializer, DecodedDoc)
    /\ \A i \in 1..(Len(trace) - 1) :
           ~Accepted(self.deserializers[i], DecodedDoc)

\* C4 as stated: ... and every earlier candidate raised a decode error or
\* was a false hit.
C4_EarlierRaisedOrFalseHit ==
    Committed =>
        /\ CommitsFirstAccepted
        /\ \A i \in 1..(Len(trace) - 1) :
               DiscardedAsErrorOrFalseHit(self.deserializers[i], DecodedDoc)

\* C4, amended: trial decode commits the first candidate, in list order,
\* whose trial on the stream rewound to offset zero signals end-of-sequence
\* or yields a non-empty first record that is not the false hit; every
\* earlier candidate raised a decode error, was a false hit or yielded an
\* empty (falsy) first record; the stream is rewound before each candidate
\* and no candidate after the committed one is invoked.
C4_TrialDecodeCommitsFirstAccepted ==
    Committed =>
        /\ CommitsFirstAccepted
        /\ \A i \in 1..(Len(trace) - 1) :
               \/ DiscardedAsErrorOrFalseHit(self.deserializers[i], DecodedDoc)
               \/ DiscardedAsEmpty(self.deserializers[i], DecodedDoc)

C4_Witness ==
    /\ Committed
    /\ src.kind = "stream" /\ src.pos = 1
    /\ \E i, j, k \in 1..(Len(trace) - 1) :
           /\ trace[i].outcome = "error"
           /\ trace[j].outcome = "falsehit"
           /\ trace[k].outcome = "empty"

----------------------------------------------------------------------------
\* C5: when every candidate is discarded for a stream-backed input,
\* construction fails with the format-detection error (SyntaxError), not
\* with another kind of error, and returns no Source.
C5_ExhaustionRaisesDetectionError ==
    (/\ Decoded
     /\ \A i \in 1..Len(self.deserializers) :
            ~Accepted(self.deserializers[i], DecodedDoc))
        => phase = "failed" /\ err = "SyntaxError"

----------------------------------------------------------------------------
\* some candidate's first pull signals end-of-sequence and every candidate
\* ahead of it in the list is discarded
ZeroRowCandidate(i) ==
    /\ Ends(self.deserializers[i], DecodedDoc)
    /\ \A j \in 1..(i - 1) : ~Accepted(self.deserializers[j], DecodedDoc)

\* C6: a candidate that parses the stream but whose first pull signals
\* end-of-sequence is committed, the stream is left at offset zero, no
\* further candidate is tried, the Source yields nothing and construction
\* does not fail.
C6_ZeroRowDocumentCommits ==
    \A i \in 1..Len(self.deserializers) :
        (Decoded /\ ZeroRowCandidate(i)) =>
            /\ phase = "built"
            /\ self.deserializer = self.deserializers[i]
            /\ Len(trace) = i
            /\ self.filePos = 0
            /\ out = <<>>
            /\ pulls > 0 => (last.eos /\ eosSeen)

C6_Witness ==
    /\ Committed /\ pulls > 1
    /\ Len(trace) > 1 /\ Len(trace) < Len(self.deserializers)
    /\ ZeroRowCandidate(Len(trace))
    /\ out = <<>> /\ last.eos

----------------------------------------------------------------------------
\* C7: exactly one acquisition path runs, the first whose test matches; no
\* lower-priority path runs after it, whether it succeeds or fails; when no
\* test matches, construction fails with NotImplementedError.
C7_OnePathCommits ==
    phase # "new" =>
        /\ Len(paths) <= 1
        /\ paths = <<>> => err = "NotImplementedError"

----------------------------------------------------------------------------
\* the JSON root of the file is a non-empty mapping of mappings
DictOfDictsRoot(root) ==
    /\ root.t = "dict" /\ Len(root.v) > 0
    /\ \A i \in 1..Len(root.v) : root.v[i][2].t = "dict"
HasField(row, key) == \E i \in 1..Len(row.v) : row.v[i][1] = key
\* one record per entry, in entry order, with the sub-mapping's fields and
\* the field name_
NormalizedFrom(rows, root) ==
    /\ Len(rows) = Len(root.v)
    /\ \A i \in 1..Len(root.v) :
           /\ rows[i].t = "dict"
           /\ HasField(rows[i], name_)
           /\ \A j \in 1..Len(root.v[i][2].v) :
                  HasField(rows[i], root.v[i][2].v[j][1])
           /\ ~HasField(root.v[i][2], name_) =>
                  \E j \in 1..Len(rows[i].v) :
                      rows[i].v[j] = <<name_, PyStr(root.v[i][1])>>

\* C8: a non-empty root mapping of mappings is normalized to one record per
\* entry, in entry order, holding the sub-mapping's fields plus name_; this
\* succeeds without raising also when a sub-mapping has a field name_.
C8_DictOfDictsNormalized ==
    (/\ phase # "new" /\ RegisteredPath /\ PathDecoder = "json_loader"
     /\ DictOfDictsRoot(Catalogue[PathDoc].json))
        => /\ _ensure_rows(Catalogue[PathDoc].json).t # "raise"
           /\ Committed
           /\ NormalizedFrom(out \o self.generator.rows,
                             Catalogue[PathDoc].json)

----------------------------------------------------------------------------
\* C9: on a Source with limit N every pull increments the counter by one,
\* the generator is invoked at most N times in total, and once a pull has
\* signalled end-of-sequence because the counter exceeded the limit every
\* later pull does so too, without invoking the generator.
C9_NoOverFetch ==
    (phase = "built" /\ self.limit.some) =>
        /\ self.counter = pulls
        /\ genCalls <= self.limit.n
        /\ limitStop => (last.eos /\ ~last.called)

----------------------------------------------------------------------------
\* C10: when a candidate is committed after its trial yielded a non-empty
\* first record, the committed sequence is the full output of that candidate
\* invoked on the stream at offset zero: the first record pulled is the
\* record seen during validation and no record is lost.
C10_ValidationPullLosesNothing ==
    (Committed /\ trace[Len(trace)].outcome = "row") =>
        /\ out \o self.generator.rows = Call(self.deserializer, DecodedDoc, 0).v
        /\ trace[Len(trace)].row_1 = Head(Call(self.deserializer, DecodedDoc, 0).v)
        /\ out # <<>> => out[1] = trace[Len(trace)].row_1

C10_Witness ==
    /\ Committed /\ trace[Len(trace)].outcome = "row"
    /\ Len(out) >= 2 /\ out[1] = trace[Len(trace)].row_1
    /\ self.generator.rows = <<>>

----------------------------------------------------------------------------
\* the acquisition paths that end in trial decode
DecodingPaths == {"path", "url", "open_file", "text"}

\* the Source was built by trial decode: the last acquisition path that ran
\* hands a stream to _deserialize, and a single record sequence came of it
TrialDecoded ==
    /\ paths # <<>> /\ paths[Len(paths)] \in DecodingPaths
    /\ self.generator.kind = "rows"

\* C11 as stated: whenever a Source has exposed a record to its caller,
\* exactly one deserializer has been committed for it.
C11_ExposedRecordHasDeserializer ==
    (phase = "built" /\ out # <<>>) => self.deserializer # "None"

\* C11, amended: a Source built by trial decode has exactly one committed
\* deserializer, one of its candidates, before it exposes any record; a
\* Source built from an iterator, a collection, an evaluated literal or a
\* chain of subsources exposes records with none committed; the commitment
\* is made during construction and no pull changes it.
C11_CommitmentFixedAtConstruction ==
    [][/\ phase = "built" => self'.deserializer = self.deserializer
       /\ phase' = "built" =>
              /\ (self'.deserializer # "None") <=> TrialDecoded'
              /\ TrialDecoded' =>
                     self'.deserializer = self'.deserializers[Len(trace')]]_vars

C11_Witness ==
    /\ phase = "built" /\ TrialDecoded /\ Len(out) >= 2 /\ eosSeen
    /\ self.deserializer # "None" /\ Len(trace) > 1

----------------------------------------------------------------------------
\* the argument is a path to an existing file that is no spreadsheet
HintedPath ==
    src.kind = "str" /\ src.name \in DOMAIN FS /\ FS[src.name].ext # ".xls"
\* the argument is a URL whose body was fetched and is no spreadsheet
HintedUrl ==
    /\ src.kind = "str" /\ src.name \in DOMAIN Web
    /\ Web[src.name].scheme /\ Web[src.name].ok
    /\ Lower(Web[src.name].ext) # ".xls"
\* os.path.splitext(src)[1] of the argument
HintOf(name) == IF name \in DOMAIN FS THEN FS[name].ext ELSE Web[name].ext
\* the registry entry of the lower-cased extension, else the catch-all list
ExpectedCandidates(ext) ==
    IF Lower(ext) \in DOMAIN ExtTable THEN ExtTable[Lower(ext)] ELSE CatchAll
\* trial decode ran over the candidates of list, in order from the first
TriedInOrder(list) ==
    /\ trace # <<>> /\ Len(trace) <= Len(list)
    /\ \A i \in 1..Len(trace) : trace[i].deserializer = list[i]

\* C12: for a path or a URL the candidate list handed to trial decode is
\* the registry entry of the lower-cased extension when it is registered,
\* the full catch-all list when the extension is absent or unregistered,
\* and never undefined or empty.
C12_CandidatesByExtension ==
    (phase # "new" /\ (HintedPath \/ HintedUrl)) =>
        /\ self.deserializers # <<>>
        /\ self.deserializers = ExpectedCandidates(HintOf(src.name))
        /\ TriedInOrder(ExpectedCandidates(HintOf(src.name)))

----------------------------------------------------------------------------
\* the decoders that pass their document root to _ensure_rows
Normalizing == {"pickle_loader", "json_loader", "ordered_yaml_load"}
\* the root value such a decoder loads from the document
RootOf(d, doc) ==
    CASE d = "pickle_loader" -> Catalogue[doc].pickle
      [] d = "json_loader" -> Catalogue[doc].json
      [] d = "ordered_yaml_load" -> Catalogue[doc].yaml
EmptyMapping(root) == root.t = "dict" /\ Len(root.v) = 0
\* candidate i of the trial decode loaded an empty mapping as its root
LoadedEmptyMapping(i) ==
    /\ trace[i].deserializer \in Normalizing
    /\ trace[i].pos = 0
    /\ EmptyMapping(RootOf(trace[i].deserializer, trace[i].doc))

\* C13: normalizing an empty root mapping returns an empty record sequence
\* without raising, so a decoder whose document root is an empty mapping is
\* committed as a zero-row document and is not a failed candidate.
C13_EmptyMappingIsZeroRows ==
    \A i \in 1..Len(trace) :
        (phase # "new" /\ LoadedEmptyMapping(i)) =>
            /\ _ensure_rows(RootOf(trace[i].deserializer, trace[i].doc))
                   = PyList(<<>>)
            /\ trace[i].outcome = "eos"
            /\ i = Len(trace)
            /\ phase = "built" /\ self.deserializer = trace[i].deserializer

----------------------------------------------------------------------------
\* candidate i of the trial decode parsed the stream from offset zero and
\* its first record is empty or falsy
FalsyFirstRecord(i) ==
    trace[i].pos = 0
    /\ DiscardedAsEmpty(trace[i].deserializer, trace[i].doc)

\* the part of C14 about the candidate itself: it is not committed and the
\* next candidate of the list, if there is one, is tried
FalsyCandidateSkipped(i) ==
    /\ trace[i].outcome = "empty"
    /\ self.deserializer # trace[i].deserializer
    /\ i < Len(self.deserializers) =>
           /\ Len(trace) > i
           /\ trace[i + 1].deserializer = self.deserializers[i + 1]

\* C14: a candidate whose first pulled record is empty or falsy is neither
\* committed nor treated as a zero-row document; trial decode moves on to
\* the next candidate, and when the candidate was the last one construction
\* fails with the detection-exhaustion error.
C14_FalsyFirstRecordDiscards ==
    \A i \in 1..Len(trace) :
        (phase # "new" /\ FalsyFirstRecord(i)) =>
            /\ FalsyCandidateSkipped(i)
            /\ i = Len(self.deserializers) =>
                   (phase = "failed" /\ err = "SyntaxError")

====
